---- MODULE Spec2Model ----
(***************************************************************************)
(* xmlwrapp: the tree-building parser (xml::tree_parser), its SAX error    *)
(* and warning callbacks, and the formatted-message converter              *)
(* (xml::impl::printf2string).                                             *)
(*                                                                         *)
(* One tree_parser construction is modelled as a state machine.  The       *)
(* constructor is split where the code hands control to libxml2: the part  *)
(* before the parse call, the callbacks libxml2 makes while parsing, and   *)
(* the part after the parse call returns.  libxml2 is the environment: its *)
(* callbacks and its results are chosen nondeterministically.              *)
(*                                                                         *)
(* Spec is one tree_parser with its queries and destructor; SpecXslt is    *)
(* the xslt::stylesheet constructors and a document handle; SpecTwo is two *)
(* constructions running interleaved; SpecFmt is printf2string alone.      *)
(***************************************************************************)
EXTENDS Integers, Sequences, FiniteSets, TLC

(***************************************************************************)
(* Bounds of the model.                                                    *)
(***************************************************************************)
\* the most callbacks libxml2 delivers during one parse
MaxCallbacks == 2

\* calls of the query methods on one constructed parser
MaxQueries == 2

\* callbacks libxml2 delivers to two interleaved parses together
MaxInterleaved == 3

\* the longest of the short texts given to printf2string alone
MaxText == 3

\* calls of apply on one stylesheet
MaxApplies == 2

\* calls of error_cb libxslt makes on one stylesheet, all applies together
MaxXsltCallbacks == 2

\* operations a client makes on one document handle
MaxHandleOps == 3

(***************************************************************************)
(* Characters and texts.  A text is a sequence of characters; a character  *)
(* is a one-character string.  NUL stands for the character '\0'.          *)
(***************************************************************************)
NUL == "NUL"
NL == "\n"

\* char buffer[512]
BufSize == 512

\* const char DEFAULT_ERROR[] = "unknown XML parsing error"
DEFAULT_ERROR ==
    << "u","n","k","n","o","w","n"," ","X","M","L"," ",
       "p","a","r","s","i","n","g"," ","e","r","r","o","r" >>

\* the literal the file constructor puts before the name
FAILED_TO_OPEN ==
    << "f","a","i","l","e","d"," ","t","o"," ","o","p","e","n"," ",
       "f","i","l","e"," ","\"" >>

QUOTE == << "\"" >>

\* pointers
NULL == "NULL"
PIMPL == "pimpl"
\* the tree libxml2 builds (xmlDocPtr), and the document a default
\* constructed xml::document holds
TREE == "tree"
DEFAULT_DOC == "default_doc"

(***************************************************************************)
(* Inputs.                                                                 *)
(***************************************************************************)
\* What a callback's format and arguments format to: the whole text
\* vsnprintf would produce, or an encoding error.
Formatted ==
    { [err |-> TRUE,  text |-> << >>],            \* vsnprintf fails: < 0
      [err |-> FALSE, text |-> << >>],            \* formats to nothing: 0
      [err |-> FALSE, text |-> << NL >>],
      [err |-> FALSE, text |-> << "a", NL >>],
      [err |-> FALSE, text |-> << "b" >>],
      [err |-> FALSE, text |-> << NUL, "c" >>] }

\* names given to the file constructor
Names == { << "m", ".", "x" >>, << "n" >> }

\* what a name is: a path that cannot be opened, a readable file, or a URL
\* libxml2 can load and fopen cannot
Kinds == { "missing", "file", "url" }

\* the byte that lies before buffer[0] on the stack
StackBytes == { NL, "x" }

Min(a, b) == IF a < b THEN a ELSE b

(***************************************************************************)
(* printf2string (utility.cxx)                                             *)
(***************************************************************************)
\* vsnprintf(buffer, sizeof(buffer), message, ap): the value returned
vsnprintf_ret(f) == IF f.err THEN -1 ELSE Len(f.text)

\* buffer[i] (0-based) after memset and vsnprintf: at most BufSize-1
\* characters are stored, the rest of the buffer is NUL
buffer_at(f, i) ==
    IF ~f.err /\ i + 1 <= Min(Len(f.text), BufSize - 1)
    THEN f.text[i + 1]
    ELSE NUL

\* std::strlen(buffer)
strlen(f) ==
    LET n == IF f.err THEN 0 ELSE Min(Len(f.text), BufSize - 1)
    IN  CHOOSE k \in 0..n :
            /\ \A i \in 0..(k - 1) : buffer_at(f, i) # NUL
            /\ buffer_at(f, k) = NUL

\* the character the newline test reads: buffer[size-1], which is the
\* byte before the buffer when size is 0
newline_probe(f, prev) ==
    IF strlen(f) = 0 THEN prev ELSE buffer_at(f, strlen(f) - 1)

\* printf2string(s, message, ap): the new value of s, and whether
\* s.assign threw (size wrapped below zero)
printf2string(s, f, prev) ==
    IF vsnprintf_ret(f) > 0
    THEN LET size0 == strlen(f)
             size  == IF newline_probe(f, prev) = NL THEN size0 - 1 ELSE size0
         IN  IF size < 0
             THEN [s |-> s, threw |-> TRUE]
             ELSE [s |-> SubSeq(f.text, 1, size), threw |-> FALSE]
    ELSE [s |-> s, threw |-> FALSE]

(***************************************************************************)
(* tree_impl and the callbacks (tree_parser.cxx)                           *)
(***************************************************************************)
\* tree_impl::tree_impl()
tree_impl ==
    [ doc_        |-> DEFAULT_DOC,
      last_error_ |-> DEFAULT_ERROR,
      warnings_   |-> FALSE,
      okay_       |-> FALSE ]

\* cb_tree_error without line 93: the success flag is left alone
cb_tree_error_keeps_okay(impl, p, f, prev) ==
    IF p = NULL
    THEN [impl |-> impl, stop |-> FALSE]
    ELSE LET r == printf2string(impl.last_error_, f, prev)
         IN  [impl |-> [impl EXCEPT !.last_error_ = r.s], stop |-> ~r.threw]

\* cb_tree_error without the null test of line 90
cb_tree_error_unguarded(impl, p, f, prev) ==
    LET r == printf2string(impl.last_error_, f, prev)
    IN  [impl |-> [impl EXCEPT !.okay_ = FALSE, !.last_error_ = r.s],
         stop |-> ~r.threw]

\* cb_tree_error: the session after the callback, and whether
\* xmlStopParser was called
cb_tree_error(impl, p, f, prev) ==
    IF p = NULL
    THEN [impl |-> impl, stop |-> FALSE]
    ELSE LET r == printf2string(impl.last_error_, f, prev)
         IN  [impl |-> [impl EXCEPT !.okay_ = FALSE, !.last_error_ = r.s],
              stop |-> ~r.threw]

\* cb_tree_warning treating a warning as an error
cb_tree_warning_fatal(impl, p) ==
    IF p = NULL THEN impl ELSE [impl EXCEPT !.warnings_ = TRUE, !.okay_ = FALSE]

\* cb_tree_warning without the null test of line 111
cb_tree_warning_unguarded(impl, p) == [impl EXCEPT !.warnings_ = TRUE]

\* cb_tree_warning
cb_tree_warning(impl, p) ==
    IF p = NULL THEN impl ELSE [impl EXCEPT !.warnings_ = TRUE]

\* document::set_doc_data: the handle takes the tree it is given
set_doc_data(impl, data) == [impl EXCEPT !.doc_ = data]

\* FILE *test = fopen(name, "r")
fopen(k) == IF k = "file" THEN "FILE" ELSE NULL

VARIABLES
    pc,          \* "idle", "parsing", "returned", "thrown", "destroyed"
    ctor,        \* "none", "file", "mem": the constructor running
    name,        \* the file constructor's name
    kind,        \* what the name is
    allow,       \* allow_exceptions
    pimpl,       \* the tree_impl pimpl_ points to
    session,     \* "none", "live", "deleted": the tree_impl allocation
    ctxt,        \* the memory constructor's context: state and sax table
    lib,         \* what libxml2 handed back when the parse call returned
    freed,       \* number of xmlFreeDoc calls on the tree
    stop,        \* xmlStopParser was called
    exc,         \* the exception the constructor threw
    log,         \* the callbacks delivered, in order
    atReturn,    \* the tree_impl as it was when the parse call returned
    result,      \* the last query method called, what it returned, the calls so far
    xslt,        \* one xslt::stylesheet: its pimpl, and the document handle its
                 \* constructor reads the tree from
    dochandle,   \* a document handle in a client's hands, and the last
                 \* operation made on it
    two,         \* two tree_parser constructions running interleaved
    fmt          \* one call of printf2string: its arguments and its result

vars == << pc, ctor, name, kind, allow, pimpl, session, ctxt, lib, freed,
           stop, exc, log, atReturn, result, xslt, dochandle, two,
           fmt >>

\* the variables the tree_parser constructors and callbacks leave alone
aux == << xslt, dochandle, two, fmt >>

\* the variables of one tree_parser
parser == << pc, ctor, name, kind, allow, pimpl, session, ctxt, lib, freed,
             stop, exc, log, atReturn, result >>

NoResult == [method |-> "none", value |-> FALSE, n |-> 0]
NoLib == [doc |-> NULL, wellFormed |-> FALSE, retval |-> 0]
NoCtxt == [state |-> "none", sax |-> NULL, frees |-> 0, tables_freed |-> << >>]

\* xmlCreateMemoryParserCtxt, when it succeeds: a context with a handler
\* table of its own
xmlCreateMemoryParserCtxt ==
    [state |-> "live", sax |-> "default", frees |-> 0, tables_freed |-> << >>]

\* xmlFreeParserCtxt: the context is freed, and with it the handler table
\* it still points to
xmlFreeParserCtxt(c) ==
    [c EXCEPT !.state = "freed",
              !.frees = @ + 1,
              !.tables_freed = IF c.sax # NULL THEN Append(@, c.sax) ELSE @]

\* lines 201-204: free the context's table, install the session's
InstallSax(c) ==
    [c EXCEPT !.tables_freed = IF c.sax # NULL THEN Append(@, c.sax) ELSE @,
              !.sax = "session"]

\* the context freed with the session's table still attached
MemCtorRelease_attached(c) == xmlFreeParserCtxt(c)

\* lines 215-216 and 229-231: ctxt->sax = 0; xmlFreeParserCtxt(ctxt)
MemCtorRelease(c) == xmlFreeParserCtxt([c EXCEPT !.sax = NULL])
NoExc == [type |-> "none", what |-> << >>]

(***************************************************************************)
(* xslt::stylesheet (stylesheet.cxx) and the document handle               *)
(***************************************************************************)
\* "unknown XSLT parser error"
UNKNOWN_XSLT_PARSER_ERROR ==
    << "u","n","k","n","o","w","n"," ","X","S","L","T"," ",
       "p","a","r","s","e","r"," ","e","r","r","o","r" >>

\* "unknown XSLT transformation error"
UNKNOWN_XSLT_TRANSFORMATION_ERROR ==
    << "u","n","k","n","o","w","n"," ","X","S","L","T"," ",
       "t","r","a","n","s","f","o","r","m","a","t","i","o","n"," ",
       "e","r","r","o","r" >>

\* the tree xsltApplyStylesheetUser returns when it returns one
RESULT == "result"

\* the xsltStylesheetPtr xsltParseStylesheetDoc returns when it succeeds
SS == "ss"

\* what an operation on an empty document handle fails with
DOC_ERROR == "error"

\* xslt::stylesheet::pimpl::pimpl
stylesheet_pimpl ==
    [ ss_             |-> NULL,
      doc_            |-> DEFAULT_DOC,
      error_          |-> << >>,
      errors_occured_ |-> FALSE ]

\* document::get_doc_data on a handle holding d: the tree, or the error
get_doc_data(d) == IF d = NULL THEN DOC_ERROR ELSE d

\* document::release_doc_data on a handle holding d: what the handle holds
\* afterwards, and the outcome
release_doc_data(d) ==
    [doc |-> NULL, value |-> IF d = NULL THEN DOC_ERROR ELSE "released"]

\* document::~document: the number of trees freed
document_dtor(d) == IF d = TREE THEN 1 ELSE 0

\* error_cb: the pimpl and ctxt->state after the call, and whether
\* printf2string threw, which ends the call before the last append
error_cb(impl, state, f, prev) ==
    LET r == printf2string(<< >>, f, prev)
    IN  [impl  |-> [impl EXCEPT
                      !.errors_occured_ = TRUE,
                      !.error_ = IF r.threw THEN @ \o << NL >>
                                            ELSE @ \o << NL >> \o r.s],
         state |-> IF state = "OK" THEN "STOPPED" ELSE state,
         threw |-> r.threw]

\* apply_stylesheet without line 168: the flag keeps its value
apply_stylesheet_begin_keeps_flag(impl) == impl

\* apply_stylesheet, lines 156-168: the pimpl when xsltApplyStylesheetUser
\* is called
apply_stylesheet_begin(impl) == [impl EXCEPT !.errors_occured_ = FALSE]

\* apply_stylesheet, lines 173-192, given the tree the library returned:
\* the pimpl, the tree handed to the caller, the trees freed
apply_stylesheet_end(impl, xsltresult) ==
    IF xsltresult # NULL /\ impl.errors_occured_
    THEN [impl |-> impl, xmldoc |-> NULL, freed |-> 1]
    ELSE IF xsltresult = NULL
         THEN [impl   |-> [impl EXCEPT !.error_ =
                               IF @ = << >>
                               THEN UNKNOWN_XSLT_TRANSFORMATION_ERROR ELSE @],
               xmldoc |-> NULL, freed |-> 0]
         ELSE [impl |-> impl, xmldoc |-> xsltresult, freed |-> 0]

\* no apply made yet
NoApply ==
    [ pc            |-> "none",       \* "none", "applying", "done"
      overload      |-> "none",       \* "bool", "ref": what apply returns
      n             |-> 0,            \* applies started
      cbs           |-> 0,            \* error_cb calls during this apply
      total         |-> 0,            \* error_cb calls during all applies
      state         |-> "OK",         \* ctxt->state
      ctxt          |-> "none",       \* "live", "freed", "leaked"
      libresult     |-> NULL,         \* what xsltApplyStylesheetUser returned
      result_freed  |-> 0,            \* xmlFreeDoc calls on that tree
      returned      |-> "none",       \* "true", "false", "ref", "threw"
      exc           |-> "none",       \* the type of the exception apply threw
      caller_result |-> DEFAULT_DOC,  \* what the caller's result document holds
      last_f        |-> [err |-> TRUE, text |-> << >>],  \* the last message
      before        |-> << >> ]       \* error_ when the last error_cb began

NoXslt ==
    [ pc     |-> "idle",      \* "idle", "parsing", "built", "thrown", "destroyed",
                              \* "terminated"
      apply  |-> NoApply,
      via    |-> "none",      \* "file", "doc": the constructor
      alloc  |-> "none",      \* "none", "live", "deleted": the pimpl allocation
      pimpl  |-> stylesheet_pimpl,
      doc    |-> "none",      \* what the constructor's document handle holds
      atExit |-> "none",      \* what it held when the constructor left its scope
      freed  |-> 0,           \* times the tree was freed
      exc    |-> NoExc ]

\* the two interleaved constructions
Parses == { "p1", "p2" }
Other(i) == IF i = "p1" THEN "p2" ELSE "p1"

\* one of the two interleaved constructions, before it starts
NoParse ==
    [ pc   |-> "idle",        \* "idle", "parsing", "returned"
      ctor |-> "none",        \* "file", "mem"
      kind |-> "file",        \* what the file constructor's name is
      impl |-> tree_impl,     \* its tree_impl
      log  |-> << >>,         \* the callbacks delivered for it
      out  |-> NoLib ]        \* what libxml2 handed back

NoTwo ==
    [ parse   |-> [i \in Parses |-> NoParse],
      current |-> NULL ]      \* the construction that started last

\* a call of printf2string not made yet
NoFmt ==
    [ s    |-> << >>,                          \* the string the caller passes
      f    |-> [err |-> FALSE, text |-> << >>], \* what the message formats to
      prev |-> "x",                            \* the byte before the buffer
      done |-> FALSE,
      out  |-> [s |-> << >>, threw |-> FALSE] ]

NoHandle == [doc |-> TREE, last |-> [op |-> "none", value |-> "none"], ops |-> 0]

InitRest ==
    /\ pc = "idle"
    /\ ctor = "none"
    /\ name = << >>
    /\ kind = "file"
    /\ allow = TRUE
    /\ pimpl = tree_impl
    /\ session = "none"
    /\ ctxt = NoCtxt
    /\ lib = NoLib
    /\ freed = 0
    /\ stop = FALSE
    /\ exc = NoExc
    /\ log = << >>
    /\ atReturn = tree_impl
    /\ result = NoResult
    /\ xslt = NoXslt
    /\ dochandle = NoHandle
    /\ two = NoTwo

Init == InitRest /\ fmt = NoFmt

(***************************************************************************)
(* tree_parser::tree_parser(const char *name, bool allow_exceptions)       *)
(***************************************************************************)
\* lines 148-151: up to the call of xmlSAXParseFileWithData
FileCtorBegin(n, k, a) ==
    /\ pc = "idle"
    /\ pc' = "parsing"
    /\ ctor' = "file"
    /\ name' = n
    /\ kind' = k
    /\ allow' = a
    /\ pimpl' = [tree_impl EXCEPT !.okay_ = TRUE]
    /\ session' = "live"
    /\ UNCHANGED << ctxt, lib, freed, stop, exc, log, atReturn >>
    /\ UNCHANGED << result, aux >>

\* lines 153-183 with the name left out of the message
FileCtorSettle_unnamed(impl, tmpdoc, n, k) ==
    IF tmpdoc # NULL /\ impl.okay_
    THEN set_doc_data(impl, tmpdoc)
    ELSE LET described ==
                 IF impl.last_error_ = DEFAULT_ERROR /\ fopen(k) = NULL
                 THEN [impl EXCEPT !.last_error_ = FAILED_TO_OPEN \o QUOTE]
                 ELSE impl
         IN  [described EXCEPT !.okay_ = FALSE]

\* lines 153-183 without the test of line 160: the diagnostic replaces
\* whatever text is there
FileCtorSettle_hides(impl, tmpdoc, n, k) ==
    IF tmpdoc # NULL /\ impl.okay_
    THEN set_doc_data(impl, tmpdoc)
    ELSE LET described ==
                 IF fopen(k) = NULL
                 THEN [impl EXCEPT !.last_error_ = FAILED_TO_OPEN \o n \o QUOTE]
                 ELSE impl
         IN  [described EXCEPT !.okay_ = FALSE]

\* the session after lines 153-183, given the tree the library returned
FileCtorSettle(impl, tmpdoc, n, k) ==
    IF tmpdoc # NULL /\ impl.okay_
    THEN set_doc_data(impl, tmpdoc)
    ELSE LET described ==
                 IF impl.last_error_ = DEFAULT_ERROR /\ fopen(k) = NULL
                 THEN [impl EXCEPT !.last_error_ = FAILED_TO_OPEN \o n \o QUOTE]
                 ELSE impl
         IN  [described EXCEPT !.okay_ = FALSE]

\* lines 185-186 without the test of allow_exceptions
FileCtorThrows_always(impl, tmpdoc, a) == ~(tmpdoc # NULL /\ impl.okay_)

\* whether lines 153-187 end in the throw of line 186
FileCtorThrows(impl, tmpdoc, a) == ~(tmpdoc # NULL /\ impl.okay_) /\ a

\* xmlSAXParseFileWithData returns tmpdoc; lines 153-189
FileCtorEnd(tmpdoc) ==
    /\ pc = "parsing"
    /\ ctor = "file"
    /\ kind = "missing" => tmpdoc = NULL
    /\ LET after  == FileCtorSettle(pimpl, tmpdoc, name, kind)
           throws == FileCtorThrows(pimpl, tmpdoc, allow)
       IN  /\ pimpl' = after
           /\ lib' = [doc |-> tmpdoc, wellFormed |-> tmpdoc # NULL, retval |-> 0]
           /\ freed' = IF tmpdoc # NULL /\ ~pimpl.okay_ THEN freed + 1 ELSE freed
           /\ pc' = IF throws THEN "thrown" ELSE "returned"
           /\ exc' = IF throws
                     THEN [type |-> "xml::exception", what |-> after.last_error_]
                     ELSE NoExc
           /\ session' = IF throws THEN "deleted" ELSE "live"
    /\ atReturn' = pimpl
    /\ UNCHANGED << ctor, name, kind, allow, ctxt, stop, log >>
    /\ UNCHANGED << result, aux >>

(***************************************************************************)
(* tree_parser::tree_parser(const char *data, size_type size,              *)
(*                          bool allow_exceptions)                         *)
(***************************************************************************)
\* lines 195-209 with the throw of line 199 made to depend on
\* allow_exceptions
MemCtorBegin_suppressed(a, created) ==
    /\ pc = "idle"
    /\ ctor' = "mem"
    /\ allow' = a
    /\ IF created
       THEN /\ pc' = "parsing"
            /\ pimpl' = [tree_impl EXCEPT !.okay_ = TRUE]
            /\ session' = "live"
            /\ ctxt' = InstallSax(xmlCreateMemoryParserCtxt)
            /\ exc' = NoExc
       ELSE /\ pc' = IF a THEN "thrown" ELSE "returned"
            /\ pimpl' = tree_impl
            /\ session' = IF a THEN "deleted" ELSE "live"
            /\ ctxt' = NoCtxt
            /\ exc' = IF a THEN [type |-> "std::bad_alloc", what |-> << >>] ELSE NoExc
    /\ UNCHANGED << name, kind, lib, freed, stop, log, atReturn >>
    /\ UNCHANGED << result, aux >>

\* lines 195-209: up to the call of xmlParseDocument; created is whether
\* xmlCreateMemoryParserCtxt gave a context
MemCtorBegin(a, created) ==
    /\ pc = "idle"
    /\ ctor' = "mem"
    /\ allow' = a
    /\ IF created
       THEN /\ pc' = "parsing"
            /\ pimpl' = [tree_impl EXCEPT !.okay_ = TRUE]
            /\ session' = "live"
            /\ ctxt' = InstallSax(xmlCreateMemoryParserCtxt)
            /\ exc' = NoExc
       ELSE /\ pc' = "thrown"
            /\ pimpl' = tree_impl
            /\ session' = "deleted"
            /\ ctxt' = NoCtxt
            /\ exc' = [type |-> "std::bad_alloc", what |-> << >>]
    /\ UNCHANGED << name, kind, lib, freed, stop, log, atReturn >>
    /\ UNCHANGED << result, aux >>

\* whether line 211 takes the failure branch
MemCtorFails(impl, wellFormed, retval) ==
    ~wellFormed \/ retval # 0 \/ ~impl.okay_

\* lines 211-232 with the tree handed to the document on the failure
\* branch as well
MemCtorSettle_keeps_tree(impl, wellFormed, retval, myDoc) ==
    IF MemCtorFails(impl, wellFormed, retval)
    THEN [set_doc_data(impl, myDoc) EXCEPT !.okay_ = FALSE]
    ELSE [set_doc_data(impl, myDoc) EXCEPT !.okay_ = TRUE]

\* the session after lines 211-232
MemCtorSettle(impl, wellFormed, retval, myDoc) ==
    IF MemCtorFails(impl, wellFormed, retval)
    THEN [impl EXCEPT !.okay_ = FALSE]
    ELSE [set_doc_data(impl, myDoc) EXCEPT !.okay_ = TRUE]

\* xmlParseDocument returns retval, with ctxt->wellFormed and ctxt->myDoc;
\* lines 211-232
MemCtorEnd(wellFormed, retval, myDoc) ==
    /\ pc = "parsing"
    /\ ctor = "mem"
    /\ LET fails  == MemCtorFails(pimpl, wellFormed, retval)
           after  == MemCtorSettle(pimpl, wellFormed, retval, myDoc)
           throws == fails /\ allow
       IN  /\ pimpl' = after
           /\ lib' = [doc |-> myDoc, wellFormed |-> wellFormed, retval |-> retval]
           /\ freed' = IF fails /\ myDoc # NULL THEN freed + 1 ELSE freed
           /\ ctxt' = MemCtorRelease(ctxt)
           /\ pc' = IF throws THEN "thrown" ELSE "returned"
           /\ exc' = IF throws
                     THEN [type |-> "xml::exception", what |-> after.last_error_]
                     ELSE NoExc
           /\ session' = IF throws THEN "deleted" ELSE "live"
    /\ atReturn' = pimpl
    /\ UNCHANGED << ctor, name, kind, allow, stop, log >>
    /\ UNCHANGED << result, aux >>

(***************************************************************************)
(* tree_parser::~tree_parser: delete pimpl_, which destroys doc_ and with  *)
(* it the tree the document owns                                           *)
(***************************************************************************)
\* the destructor that forgets delete pimpl_
tree_parser_dtor_leaks ==
    /\ pc = "returned"
    /\ pc' = "destroyed"
    /\ UNCHANGED << ctor, name, kind, allow, pimpl, session, ctxt, lib, freed,
                    stop, exc, log, atReturn >>
    /\ UNCHANGED << result, aux >>

tree_parser_dtor ==
    /\ pc = "returned"
    /\ pc' = "destroyed"
    /\ session' = "deleted"
    /\ freed' = IF pimpl.doc_ = TREE THEN freed + 1 ELSE freed
    /\ UNCHANGED << ctor, name, kind, allow, pimpl, ctxt, lib, stop, exc, log,
                    atReturn >>
    /\ UNCHANGED << result, aux >>

(***************************************************************************)
(* The callbacks libxml2 makes during the parse.  p is ctxt->_private of   *)
(* the context the callback is given: the session, or null.                *)
(***************************************************************************)
CbError(p, f, prev) ==
    /\ pc = "parsing"
    /\ Len(log) < MaxCallbacks
    /\ LET r == cb_tree_error(pimpl, p, f, prev)
       IN  /\ pimpl' = r.impl
           /\ stop' = (stop \/ r.stop)
    /\ log' = Append(log, [cb |-> "error", p |-> p, f |-> f])
    /\ UNCHANGED << pc, ctor, name, kind, allow, session, ctxt, lib, freed, exc, atReturn >>
    /\ UNCHANGED << result, aux >>

CbWarning(p) ==
    /\ pc = "parsing"
    /\ Len(log) < MaxCallbacks
    /\ pimpl' = cb_tree_warning(pimpl, p)
    /\ log' = Append(log, [cb |-> "warning", p |-> p, f |-> [err |-> FALSE, text |-> << >>]])
    /\ UNCHANGED << pc, ctor, name, kind, allow, session, ctxt, lib, freed, stop, exc, atReturn >>
    /\ UNCHANGED << result, aux >>

(***************************************************************************)
(* The query methods (lines 242-269), called on a constructed parser        *)
(***************************************************************************)
Methods == { "operator!", "get_error_message", "had_warnings", "get_document" }

\* get_error_message handing its text over and leaving the session's empty
query_moves_text(impl, m) ==
    CASE m = "operator!"         -> [impl |-> impl, value |-> ~impl.okay_]
      [] m = "get_error_message" -> [impl |-> [impl EXCEPT !.last_error_ = << >>],
                                     value |-> impl.last_error_]
      [] m = "had_warnings"      -> [impl |-> impl, value |-> impl.warnings_]
      [] m = "get_document"      -> [impl |-> impl, value |-> impl.doc_]

\* method m called on a parser whose session is impl: the session after
\* the call and the value returned
query(impl, m) ==
    CASE m = "operator!"         -> [impl |-> impl, value |-> ~impl.okay_]
      [] m = "get_error_message" -> [impl |-> impl, value |-> impl.last_error_]
      [] m = "had_warnings"      -> [impl |-> impl, value |-> impl.warnings_]
      [] m = "get_document"      -> [impl |-> impl, value |-> impl.doc_]

Query(m) ==
    /\ pc = "returned"
    /\ result.n < MaxQueries
    /\ LET r == query(pimpl, m)
       IN  /\ pimpl' = r.impl
           /\ result' = [method |-> m, value |-> r.value, n |-> result.n + 1]
    /\ UNCHANGED << pc, ctor, name, kind, allow, session, ctxt, lib, freed, stop,
                    exc, log, atReturn >>
    /\ UNCHANGED aux

Next ==
    \/ \E n \in Names, k \in Kinds, a \in BOOLEAN : FileCtorBegin(n, k, a)
    \/ \E d \in {NULL, TREE} : FileCtorEnd(d)
    \/ \E a \in BOOLEAN, created \in BOOLEAN : MemCtorBegin(a, created)
    \/ \E wf \in BOOLEAN, rv \in {0, -1}, d \in {NULL, TREE} : MemCtorEnd(wf, rv, d)
    \/ \E p \in {NULL, PIMPL}, f \in Formatted, prev \in StackBytes : CbError(p, f, prev)
    \/ \E p \in {NULL, PIMPL} : CbWarning(p)
    \/ tree_parser_dtor
    \/ \E m \in Methods : Query(m)

Spec == Init /\ [][Next]_vars

(***************************************************************************)
(* xslt::stylesheet::stylesheet and ~stylesheet; a client's operations on  *)
(* a document handle.  The constructors are split at the call of           *)
(* xsltParseStylesheetDoc.                                                 *)
(***************************************************************************)
\* a client calls get_doc_data on its handle
DocRead ==
    /\ dochandle.ops < MaxHandleOps
    /\ dochandle' = [dochandle EXCEPT
                        !.last = [op |-> "read", value |-> get_doc_data(dochandle.doc)],
                        !.ops = @ + 1]
    /\ UNCHANGED << parser, xslt, two, fmt >>

\* a client calls release_doc_data on its handle, handing the tree on
DocRelease ==
    /\ dochandle.ops < MaxHandleOps
    /\ LET r == release_doc_data(dochandle.doc)
       IN  dochandle' = [doc |-> r.doc,
                         last |-> [op |-> "release", value |-> r.value],
                         ops |-> dochandle.ops + 1]
    /\ UNCHANGED << parser, xslt, two, fmt >>

\* lines 200-205: tree_parser parser(filename) throws when the parse
\* failed; otherwise its document holds the tree and
\* xsltParseStylesheetDoc is called on it
StylesheetFromFile(tmpdoc) ==
    /\ xslt.pc = "idle"
    /\ xslt' = IF tmpdoc = NULL
               THEN [xslt EXCEPT !.pc = "thrown", !.via = "file",
                                 !.alloc = "deleted",
                                 !.exc = [type |-> "xml::exception", what |-> << >>]]
               ELSE [xslt EXCEPT !.pc = "parsing", !.via = "file",
                                 !.alloc = "live", !.doc = tmpdoc]
    /\ UNCHANGED << parser, dochandle, two, fmt >>

\* lines 222-225: doc is the constructor's own copy of the caller's
\* document; get_doc_data on it comes before new pimpl
StylesheetFromDoc ==
    /\ xslt.pc = "idle"
    /\ LET doc    == dochandle.doc
           xmldoc == get_doc_data(doc)
       IN  xslt' = IF xmldoc = DOC_ERROR
                   THEN [xslt EXCEPT !.pc = "thrown", !.via = "doc",
                                     !.atExit = doc,
                                     !.exc = [type |-> DOC_ERROR, what |-> << >>]]
                   ELSE [xslt EXCEPT !.pc = "parsing", !.via = "doc",
                                     !.alloc = "live", !.doc = doc]
    /\ UNCHANGED << parser, dochandle, two, fmt >>

\* lines 203-215 with release_doc_data called before the test as well
StylesheetCtorSettle_releases_first(impl, doc, ss) ==
    IF ss = NULL
    THEN [impl   |-> [impl EXCEPT !.error_ = IF @ = << >>
                                             THEN UNKNOWN_XSLT_PARSER_ERROR ELSE @],
          doc    |-> release_doc_data(doc).doc,
          throws |-> TRUE]
    ELSE [impl   |-> [impl EXCEPT !.ss_ = ss],
          doc    |-> release_doc_data(doc).doc,
          throws |-> FALSE]

\* lines 203-215 and 225-235: the pimpl and the document handle after
\* xsltParseStylesheetDoc returned ss, and whether the constructor throws
StylesheetCtorSettle(impl, doc, ss) ==
    IF ss = NULL
    THEN [impl   |-> [impl EXCEPT !.error_ = IF @ = << >>
                                             THEN UNKNOWN_XSLT_PARSER_ERROR ELSE @],
          doc    |-> doc,
          throws |-> TRUE]
    ELSE [impl   |-> [impl EXCEPT !.ss_ = ss],
          doc    |-> release_doc_data(doc).doc,
          throws |-> FALSE]

\* xsltParseStylesheetDoc returns ss; lines 203-217 and 225-237, the
\* destruction of the document handle at the end of the scope included
StylesheetCtorEnd(ss) ==
    /\ xslt.pc = "parsing"
    /\ LET r == StylesheetCtorSettle(xslt.pimpl, xslt.doc, ss)
       IN  xslt' = [xslt EXCEPT
                      !.pc = IF r.throws THEN "thrown" ELSE "built",
                      !.pimpl = r.impl,
                      !.alloc = IF r.throws THEN "deleted" ELSE "live",
                      !.exc = IF r.throws
                              THEN [type |-> "xml::exception", what |-> r.impl.error_]
                              ELSE NoExc,
                      !.doc = "none",
                      !.atExit = r.doc,
                      !.freed = @ + document_dtor(r.doc)]
    /\ UNCHANGED << parser, dochandle, two, fmt >>

\* xslt::stylesheet::~stylesheet: xsltFreeStylesheet frees the tree the
\* stylesheet was built on
stylesheet_dtor ==
    /\ xslt.pc = "built"
    /\ xslt.apply.pc # "applying"
    /\ xslt' = [xslt EXCEPT !.pc = "destroyed",
                            !.alloc = "deleted",
                            !.freed = IF xslt.pimpl.ss_ # NULL THEN @ + 1 ELSE @]
    /\ UNCHANGED << parser, dochandle, two, fmt >>

(***************************************************************************)
(* xslt::stylesheet::apply, split at the call of xsltApplyStylesheetUser.  *)
(* o is what the overload returns: a bool (lines 248-275) or a reference   *)
(* to the stylesheet's own document (lines 278-303).                       *)
(***************************************************************************)
\* lines 250-251 with apply_stylesheet's lines 156-170
ApplyBegin(o) ==
    /\ xslt.pc = "built"
    /\ xslt.apply.pc # "applying"
    /\ xslt.apply.n < MaxApplies
    /\ xslt' = [xslt EXCEPT
                   !.pimpl = apply_stylesheet_begin(@),
                   !.apply = [@ EXCEPT !.pc = "applying", !.overload = o,
                                       !.n = @ + 1, !.cbs = 0, !.state = "OK",
                                       !.ctxt = "live", !.libresult = NULL,
                                       !.result_freed = 0, !.returned = "none",
                                       !.exc = "none"]]
    /\ UNCHANGED << parser, dochandle, two, fmt >>

\* libxslt calls error_cb during the transformation.  When printf2string
\* throws, the exception leaves an extern "C" function called from C code:
\* it either propagates out of apply, past xsltFreeTransformContext, or
\* ends the program.
ApplyErrorCb(f, prev, escape) ==
    /\ xslt.pc = "built"
    /\ xslt.apply.pc = "applying"
    /\ xslt.apply.total < MaxXsltCallbacks
    /\ LET r == error_cb(xslt.pimpl, xslt.apply.state, f, prev)
           counted == [xslt.apply EXCEPT !.cbs = @ + 1, !.total = @ + 1,
                                         !.state = r.state, !.last_f = f,
                                         !.before = xslt.pimpl.error_]
       IN  xslt' = [xslt EXCEPT
                      !.pimpl = r.impl,
                      !.pc = IF r.threw /\ escape = "terminates"
                             THEN "terminated" ELSE @,
                      !.apply = IF r.threw
                                THEN [counted EXCEPT !.pc = "done",
                                                     !.ctxt = "leaked",
                                                     !.returned = "threw",
                                                     !.exc = "std::length_error"]
                                ELSE counted]
    /\ UNCHANGED << parser, dochandle, two, fmt >>

\* xsltApplyStylesheetUser returns xsltresult; apply_stylesheet's lines
\* 171-192 and the rest of apply
ApplyEnd(xsltresult) ==
    /\ xslt.pc = "built"
    /\ xslt.apply.pc = "applying"
    /\ LET r  == apply_stylesheet_end(xslt.pimpl, xsltresult)
           ok == r.xmldoc # NULL
           o  == xslt.apply.overload
       IN  xslt' = [xslt EXCEPT
                      !.pimpl = IF ok /\ o = "ref"
                                THEN [r.impl EXCEPT !.doc_ = r.xmldoc]
                                ELSE r.impl,
                      !.apply = [@ EXCEPT
                                   !.pc = "done",
                                   !.ctxt = "freed",
                                   !.libresult = xsltresult,
                                   !.result_freed = r.freed,
                                   !.returned = IF o = "bool"
                                                THEN IF ok THEN "true" ELSE "false"
                                                ELSE IF ok THEN "ref" ELSE "threw",
                                   !.exc = IF o = "ref" /\ ~ok
                                           THEN "xml::exception" ELSE "none",
                                   !.caller_result = IF ok /\ o = "bool"
                                                     THEN r.xmldoc ELSE @]]
    /\ UNCHANGED << parser, dochandle, two, fmt >>

\* xslt::stylesheet::get_error_message
stylesheet_get_error_message == xslt.pimpl.error_

NextXslt ==
    \/ DocRead
    \/ DocRelease
    \/ \E tmpdoc \in {NULL, TREE} : StylesheetFromFile(tmpdoc)
    \/ StylesheetFromDoc
    \/ \E ss \in {NULL, SS} : StylesheetCtorEnd(ss)
    \/ stylesheet_dtor
    \/ \E o \in {"bool", "ref"} : ApplyBegin(o)
    \/ \E f \in Formatted, prev \in StackBytes, escape \in {"propagates", "terminates"} :
          ApplyErrorCb(f, prev, escape)
    \/ \E xsltresult \in {NULL, RESULT} : ApplyEnd(xsltresult)

SpecXslt == Init /\ [][NextXslt]_vars

(***************************************************************************)
(* printf2string alone, on every message of a bounded set: short texts     *)
(* over the characters a, newline and NUL, and long texts around the size  *)
(* of the buffer.                                                          *)
(***************************************************************************)
Alphabet == { "a", NL, NUL }

\* the texts of length n over Alphabet
TextsOfLen(n) == [1..n -> Alphabet]

\* n times the character a
Fill(n) == [i \in 1..n |-> "a"]

ShortTexts == UNION { TextsOfLen(n) : n \in 0..MaxText }

\* texts of BufSize - 3 to BufSize characters a, followed by no, one or
\* two newlines
LongTexts ==
    { Fill(n) \o tail : n \in (BufSize - 3)..BufSize,
                        tail \in { << >>, << NL >>, << NL, NL >> } }

FmtMessages ==
    { [err |-> TRUE, text |-> << >>] } \cup
    { [err |-> FALSE, text |-> t] : t \in ShortTexts \cup LongTexts }

InitFmt ==
    /\ InitRest
    /\ \E s \in { << >>, DEFAULT_ERROR }, f \in FmtMessages, prev \in StackBytes :
          fmt = [NoFmt EXCEPT !.s = s, !.f = f, !.prev = prev]

\* the call printf2string(s, message, ap)
Apply ==
    /\ ~fmt.done
    /\ fmt' = [fmt EXCEPT !.done = TRUE,
                          !.out = printf2string(fmt.s, fmt.f, fmt.prev)]
    /\ UNCHANGED << parser, xslt, dochandle, two >>

NextFmt == Apply

SpecFmt == InitFmt /\ [][NextFmt]_vars

(***************************************************************************)
(* Two tree_parser constructions, 1 and 2, running interleaved, each with  *)
(* its own tree_impl.  Both are constructed with allow_exceptions false,   *)
(* so that both sessions can be queried afterwards.                        *)
(***************************************************************************)
\* the texts the callbacks of the two constructions format to
TwoFormatted ==
    { [err |-> FALSE, text |-> << "a", NL >>],
      [err |-> FALSE, text |-> << "b" >>] }

\* the byte before the buffer in these callbacks
TwoPrev == "x"

\* a callback that ignores its argument and reaches the session through a
\* static pointer to the construction that started last
session_of_static(p, current) == current

\* lines 87-88 and 108-109: the session a callback reaches is the one
\* ctxt->_private of its argument points to
session_of(p, current) == p

\* the callbacks delivered so far to both constructions
TwoDelivered == Len(two.parse["p1"].log) + Len(two.parse["p2"].log)

\* lines 148-151 and 195-209 of construction i
TwoBegin(i, c, k) ==
    /\ two.parse[i].pc = "idle"
    /\ two' = [two EXCEPT
                  !.parse[i] = [NoParse EXCEPT
                                  !.pc = "parsing", !.ctor = c, !.kind = k,
                                  !.impl = [tree_impl EXCEPT !.okay_ = TRUE]],
                  !.current = i]
    /\ UNCHANGED << parser, xslt, dochandle, fmt >>

\* cb_tree_error called for construction i with back-pointer p
TwoCbError(i, p, f) ==
    /\ two.parse[i].pc = "parsing"
    /\ TwoDelivered < MaxInterleaved
    /\ LET target == session_of(p, two.current)
       IN  two' = [two EXCEPT
                     !.parse = [j \in Parses |->
                                  [@[j] EXCEPT
                                     !.impl = IF target = j
                                              THEN cb_tree_error(@, PIMPL, f, TwoPrev).impl
                                              ELSE @,
                                     !.log = IF j = i
                                             THEN Append(@, [cb |-> "error",
                                                  p |-> IF p = NULL THEN NULL ELSE PIMPL,
                                                  f |-> f])
                                             ELSE @]]]
    /\ UNCHANGED << parser, xslt, dochandle, fmt >>

\* cb_tree_warning called for construction i with back-pointer p
TwoCbWarning(i, p) ==
    /\ two.parse[i].pc = "parsing"
    /\ TwoDelivered < MaxInterleaved
    /\ LET target == session_of(p, two.current)
       IN  two' = [two EXCEPT
                     !.parse = [j \in Parses |->
                                  [@[j] EXCEPT
                                     !.impl = IF target = j
                                              THEN cb_tree_warning(@, PIMPL)
                                              ELSE @,
                                     !.log = IF j = i
                                             THEN Append(@, [cb |-> "warning",
                                                  p |-> IF p = NULL THEN NULL ELSE PIMPL,
                                                  f |-> [err |-> FALSE, text |-> << >>]])
                                             ELSE @]]]
    /\ UNCHANGED << parser, xslt, dochandle, fmt >>

\* lines 153-183 or 211-232, by the constructor c
TwoSettle(c, k, impl, out) ==
    IF c = "file"
    THEN FileCtorSettle(impl, out.doc, << "n" >>, k)
    ELSE MemCtorSettle(impl, out.wellFormed, out.retval, out.doc)

\* the parse call of construction i returns
TwoEnd(i, wellFormed, retval, doc) ==
    /\ two.parse[i].pc = "parsing"
    /\ two.parse[i].ctor = "file" =>
          /\ retval = 0 /\ wellFormed = (doc # NULL)
          /\ two.parse[i].kind = "missing" => doc = NULL
    /\ LET out == [doc |-> doc, wellFormed |-> wellFormed, retval |-> retval]
       IN  two' = [two EXCEPT
                     !.parse[i].pc = "returned",
                     !.parse[i].out = out,
                     !.parse[i].impl =
                         TwoSettle(two.parse[i].ctor, two.parse[i].kind, @, out)]
    /\ UNCHANGED << parser, xslt, dochandle, fmt >>

NextTwo ==
    \/ \E i \in Parses : TwoBegin(i, "file", "url")
    \/ \E i \in Parses : TwoBegin(i, "mem", "file")
    \/ \E i \in Parses, f \in TwoFormatted : TwoCbError(i, NULL, f) \/ TwoCbError(i, i, f)
    \/ \E i \in Parses : TwoCbWarning(i, NULL) \/ TwoCbWarning(i, i)
    \/ \E i \in Parses, d \in {NULL, TREE} : TwoEnd(i, d # NULL, 0, d)

SpecTwo == Init /\ [][NextTwo]_vars

\* the session of a construction that received the callbacks lg and no
\* others
RECURSIVE Alone(_)
Alone(lg) ==
    IF lg = << >>
    THEN [tree_impl EXCEPT !.okay_ = TRUE]
    ELSE LET before == Alone(SubSeq(lg, 1, Len(lg) - 1))
             last   == lg[Len(lg)]
         IN  IF last.cb = "error"
             THEN cb_tree_error(before, last.p, last.f, TwoPrev).impl
             ELSE cb_tree_warning(before, last.p)

(***************************************************************************)
(* The query methods (tree_parser.cxx, lines 242-269)                      *)
(***************************************************************************)
\* tree_parser::operator!
operator_not == ~pimpl.okay_

\* tree_parser::get_error_message
get_error_message == pimpl.last_error_

\* tree_parser::had_warnings
had_warnings == pimpl.warnings_

\* tree_parser::get_document
get_document == pimpl.doc_

(***************************************************************************)
(* Vocabulary of the properties                                            *)
(***************************************************************************)
\* s contains sub
Contains(s, sub) ==
    \E i \in 0..(Len(s) - Len(sub)) : SubSeq(s, i + 1, i + Len(sub)) = sub

\* "failed to open file", without the quote that follows it
FailedToOpenText == SubSeq(FAILED_TO_OPEN, 1, Len(FAILED_TO_OPEN) - 2)

\* the error callbacks that reached the session, in order
ErrorsDelivered == SelectSeq(log, LAMBDA e : e.cb = "error" /\ e.p # NULL)

\* some error or fatal-error callback reached the session
HadError == ErrorsDelivered # << >>

\* some warning callback was made / reached the session
WarningFired == \E i \in 1..Len(log) : log[i].cb = "warning"
WarningDelivered == \E i \in 1..Len(log) : log[i].cb = "warning" /\ log[i].p # NULL

\* callbacks were made and all of them were warnings
OnlyWarnings == log # << >> /\ \A i \in 1..Len(log) : log[i].cb = "warning"

\* the constructor is over / a parse call was made and has returned
Done == pc \in {"returned", "thrown"}
Parsed == Done /\ exc.type # "std::bad_alloc"

\* the library handed back a well-formed tree
WellFormedTree ==
    /\ lib.doc = TREE
    /\ ctor = "mem" => lib.wellFormed /\ lib.retval = 0

\* the conditions under which each constructor is to succeed
SuccessCondition ==
    IF ctor = "file"
    THEN lib.doc # NULL /\ ~HadError
    ELSE lib.wellFormed /\ lib.retval = 0 /\ ~HadError

\* the constructor ended successful: operator! false and the document set
\* to the tree the library produced
Successful ==
    pc = "returned" /\ ~operator_not /\ lib.doc = TREE /\ get_document = TREE

\* the constructor returned a failed parser with the empty default document
FailedEmpty ==
    pc = "returned" /\ operator_not /\ get_document = DEFAULT_DOC

(***************************************************************************)
(* C1: whenever a constructor returns without throwing, exactly one of     *)
(* (a) operator! false and the document handle holds the tree the library  *)
(* produced, (b) operator! true and the document handle holds the empty    *)
(* default document, holds.                                                *)
(***************************************************************************)
C1_ExactlyOneOutcome ==
    pc = "returned" =>
        \/ Successful /\ ~FailedEmpty
        \/ FailedEmpty /\ ~Successful

(***************************************************************************)
(* C2: when a parse fails because of the input, the constructor throws     *)
(* xml::exception if and only if allow_exceptions is true, the exception   *)
(* carries the session's error text, and with allow_exceptions false the   *)
(* constructor returns a parser whose operator! is true.                   *)
(***************************************************************************)
C2_ThrowsIffAllowed ==
    (Parsed /\ ~SuccessCondition) =>
        /\ pc = "thrown" <=> allow
        /\ pc = "thrown" =>
              /\ exc.type = "xml::exception"
              /\ exc.what = get_error_message
        /\ ~allow => pc = "returned" /\ exc = NoExc /\ operator_not

C2_Witness ==
    /\ pc = "thrown" /\ exc.type = "xml::exception" /\ HadError
    /\ exc.what = << "a" >>

(***************************************************************************)
(* C3: all-or-nothing trees.  If the library hands back a tree and an      *)
(* error callback flagged the session during the parse, the parser ends    *)
(* failed, the tree is freed (once) and is not what get_document gives,    *)
(* and a text the callbacks recorded (the error text is no longer the      *)
(* sentinel as the parse call returns) is what get_error_message gives and *)
(* what the exception carries.  Both constructors.                         *)
(***************************************************************************)
C3_AllOrNothing ==
    (Parsed /\ lib.doc = TREE /\ HadError) =>
        /\ operator_not
        /\ freed = 1
        /\ get_document # TREE
        /\ atReturn.last_error_ # DEFAULT_ERROR =>
              /\ get_error_message = atReturn.last_error_
              /\ pc = "thrown" => exc.what = atReturn.last_error_

C3_Witness ==
    /\ pc = "returned" /\ ctor = "file" /\ lib.doc = TREE /\ HadError
    /\ get_error_message = << "b" >>

(***************************************************************************)
(* C4: the file constructor ends successful (operator! false, document set *)
(* to the produced tree) if and only if the library returned a tree and no *)
(* error callback flipped the success flag; the memory constructor if and  *)
(* only if the context is well-formed, the status is 0 and no error        *)
(* callback flipped the flag.                                              *)
(***************************************************************************)
C4_SuccessCondition ==
    Parsed => (Successful <=> SuccessCondition)

(***************************************************************************)
(* C5: after a parse, get_error_message gives the message of the first     *)
(* error callback that reached the session; later error callbacks do not   *)
(* change it.  Stated for a first message that formats to a text that is   *)
(* not empty and has no NUL in front.                                      *)
(***************************************************************************)
C5_FirstErrorWins ==
    (pc = "returned" /\ HadError) =>
        LET first == ErrorsDelivered[1].f
        IN  (vsnprintf_ret(first) > 0 /\ strlen(first) > 0) =>
                get_error_message = printf2string(DEFAULT_ERROR, first, "x").s

(***************************************************************************)
(* C6: when a parse fails with an error reported through the error or      *)
(* fatal-error callback, operator! is true and get_error_message is        *)
(* neither empty nor the sentinel text.                                    *)
(***************************************************************************)
C6_SpecificMessage ==
    (pc = "returned" /\ HadError) =>
        /\ operator_not
        /\ get_error_message # << >>
        /\ get_error_message # DEFAULT_ERROR

(***************************************************************************)
(* C7 as stated: for a path that cannot be opened the parser ends failed   *)
(* and get_error_message contains the path and "failed to open file",      *)
(* whatever callbacks were delivered.                                      *)
(***************************************************************************)
C7_Original ==
    (pc = "returned" /\ ctor = "file" /\ kind = "missing") =>
        /\ operator_not
        /\ Contains(get_error_message, name)
        /\ Contains(get_error_message, FailedToOpenText)

(***************************************************************************)
(* C7 as amended: for a path that cannot be opened the parser ends failed; *)
(* get_error_message contains the path and "failed to open file" when the  *)
(* error text is still the sentinel as the parse call returns, and is the  *)
(* text an error callback recorded otherwise.                              *)
(***************************************************************************)
C7_MissingFile ==
    (pc = "returned" /\ ctor = "file" /\ kind = "missing") =>
        /\ operator_not
        /\ atReturn.last_error_ = DEFAULT_ERROR =>
              /\ Contains(get_error_message, name)
              /\ Contains(get_error_message, FailedToOpenText)
        /\ atReturn.last_error_ # DEFAULT_ERROR =>
              get_error_message = atReturn.last_error_

C7_Witness ==
    /\ pc = "returned" /\ ctor = "file" /\ kind = "missing"
    /\ log # << >>
    /\ get_error_message = FAILED_TO_OPEN \o name \o QUOTE

(***************************************************************************)
(* C8 as stated: when only warning callbacks fire and the library produces *)
(* a well-formed tree, the parser ends with operator! false, had_warnings  *)
(* true, the document set and no exception.                                *)
(***************************************************************************)
C8_Original ==
    (Done /\ OnlyWarnings /\ WellFormedTree) =>
        /\ pc = "returned" /\ exc = NoExc
        /\ ~operator_not
        /\ had_warnings
        /\ get_document = TREE

(***************************************************************************)
(* C8 as amended: when only warning callbacks fire and the library         *)
(* produces a well-formed tree, the parser ends with operator! false, the  *)
(* document set, the error text untouched and no exception; had_warnings   *)
(* is true when one of the warnings came with a non-null back-pointer and  *)
(* false when none did.                                                    *)
(***************************************************************************)
C8_WarningsNotFatal ==
    (Done /\ OnlyWarnings /\ WellFormedTree) =>
        /\ pc = "returned" /\ exc = NoExc
        /\ ~operator_not
        /\ had_warnings <=> WarningDelivered
        /\ get_document = TREE
        /\ get_error_message = DEFAULT_ERROR

C8_Witness ==
    /\ pc = "returned" /\ OnlyWarnings /\ WellFormedTree
    /\ Len(log) = MaxCallbacks
    /\ had_warnings /\ ~operator_not

(***************************************************************************)
(* C9 as stated: after construction had_warnings is true if and only if a  *)
(* warning callback fired during the parse.                                *)
(***************************************************************************)
C9_Original ==
    pc = "returned" => (had_warnings <=> WarningFired)

(***************************************************************************)
(* C9 as amended: during the parse and after construction, had_warnings    *)
(* is true if and only if a warning callback with a non-null back-pointer  *)
(* has fired; error callbacks never set it and nothing resets it.          *)
(***************************************************************************)
C9_HadWarnings ==
    pc \in {"parsing", "returned"} => (had_warnings <=> WarningDelivered)

C9_Witness ==
    /\ pc = "returned" /\ had_warnings /\ HadError
    /\ log[1].cb = "warning"

(***************************************************************************)
(* C10: in the memory constructor, failure to create the parsing context   *)
(* throws std::bad_alloc whatever allow_exceptions is; no parser results,  *)
(* no callback runs, and the session is released.                          *)
(***************************************************************************)
C10_ContextFailure ==
    /\ (ctor = "mem" /\ ctxt.state = "none") =>
          /\ pc = "thrown"
          /\ exc.type = "std::bad_alloc"
          /\ session = "deleted"
          /\ log = << >>
    /\ exc.type = "std::bad_alloc" => ctor = "mem" /\ ctxt.state = "none"

C10_Witness ==
    /\ ctor = "mem" /\ ctxt.state = "none" /\ ~allow
    /\ pc = "thrown" /\ exc.type = "std::bad_alloc"

(***************************************************************************)
(* C11: a tree the library produced is, at the end of construction, either *)
(* owned by the parser's document handle (on success, and then never       *)
(* freed) or freed exactly once (on failure); never both, never freed      *)
(* twice, never left unowned and unfreed.                                  *)
(***************************************************************************)
C11_TreeOwnership ==
    (Parsed /\ lib.doc = TREE) =>
        \/ get_document = TREE /\ freed = 0 /\ pc = "returned" /\ ~operator_not
        \/ get_document # TREE /\ freed = 1 /\ operator_not

C11_Witness ==
    /\ pc = "thrown" /\ ctor = "mem" /\ lib.doc = TREE
    /\ lib.wellFormed /\ lib.retval = 0 /\ freed = 1

C16_NullIsNoOp ==
    [][ (Len(log') = Len(log) + 1 /\ log'[Len(log')].p = NULL) =>
            /\ pimpl' = pimpl
            /\ stop' = stop
            /\ pc' = pc /\ exc' = exc ]_vars

C16_Witness ==
    /\ pc = "returned" /\ ~operator_not /\ get_document = TREE
    /\ Len(log) = 2
    /\ log[1].cb = "error" /\ log[1].p = NULL /\ vsnprintf_ret(log[1].f) > 0
    /\ log[2].cb = "warning" /\ log[2].p = NULL
    /\ ~had_warnings /\ ~stop /\ get_error_message = DEFAULT_ERROR

(***************************************************************************)
(* C17: every error or fatal-error callback with a non-null back-pointer   *)
(* sets the success flag to false and asks the library to stop; the flag   *)
(* then stays false through later callbacks and the end of construction.   *)
(***************************************************************************)
C17_ErrorStops ==
    (pc \in {"parsing", "returned", "thrown"} /\ HadError) =>
        /\ ~pimpl.okay_
        /\ stop

(***************************************************************************)
(* C19: the file-open diagnostic never hides a recorded error.  The file   *)
(* constructor replaces the error text by 'failed to open file "<name>"'   *)
(* only when the parse failed, the text is still the sentinel and the file *)
(* cannot be opened; otherwise, and always in the memory constructor, the  *)
(* text is what the callbacks left: the recorded message, or the sentinel. *)
(***************************************************************************)
C19_DiagnosticNeverHides ==
    Parsed =>
        get_error_message =
            IF /\ ctor = "file"
               /\ operator_not
               /\ atReturn.last_error_ = DEFAULT_ERROR
               /\ kind # "file"
            THEN FAILED_TO_OPEN \o name \o QUOTE
            ELSE atReturn.last_error_

C19_Witness ==
    /\ pc = "returned" /\ ctor = "file" /\ kind = "url" /\ operator_not
    /\ HadError /\ get_error_message = << "a" >>

(***************************************************************************)
(* C18: in the memory constructor, once the context was created it is      *)
(* freed exactly once on every path; the session's handler table is        *)
(* detached before the context is freed, so the context never frees it;    *)
(* the context's own default table is freed exactly once, before the       *)
(* session's table is installed.                                           *)
(***************************************************************************)
C18_ContextReleased ==
    (ctor = "mem" /\ ctxt.state # "none") =>
        /\ ctxt.tables_freed = << "default" >>
        /\ pc = "parsing" =>
              ctxt.state = "live" /\ ctxt.frees = 0 /\ ctxt.sax = "session"
        /\ pc \in {"returned", "thrown", "destroyed"} =>
              ctxt.state = "freed" /\ ctxt.frees = 1 /\ ctxt.sax = NULL

C18_Witness ==
    /\ ctor = "mem" /\ pc = "thrown" /\ exc.type = "xml::exception"
    /\ ctxt.state = "freed" /\ ctxt.frees = 1

(***************************************************************************)
(* C15: the query methods are read-only and idempotent: a call of          *)
(* operator!, get_error_message, had_warnings or get_document on a         *)
(* constructed parser leaves the success flag, the error text, the warning *)
(* flag and the document as they were, returns the field it reads, and a   *)
(* method called twice in a row returns the same value both times.         *)
(***************************************************************************)
C15_QueriesReadOnly ==
    [][ result'.n = result.n + 1 =>
            /\ pimpl' = pimpl
            /\ result'.value = query(pimpl', result'.method).value
            /\ result'.method = result.method => result'.value = result.value
      ]_vars

C15_Witness ==
    /\ pc = "returned"
    /\ result.n = 2
    /\ result.method = "get_error_message"
    /\ result.value # DEFAULT_ERROR
    /\ pimpl.warnings_

(***************************************************************************)
(* C13: release-once ownership of the document handle.  A handle whose     *)
(* tree was released is empty, and a release or a read on an empty handle  *)
(* fails with the defined error and hands out no tree.  The stylesheet     *)
(* constructor releases the tree only when xsltParseStylesheetDoc          *)
(* succeeded: on success the stylesheet owns the tree and the handle left  *)
(* its scope empty; on failure the handle still held the tree and freed    *)
(* it; the tree is never owned by both, hence never freed twice.           *)
(***************************************************************************)
C13_HandleStep ==
    dochandle'.ops = dochandle.ops + 1 =>
        /\ dochandle.doc = NULL =>
              dochandle'.doc = NULL /\ dochandle'.last.value = DOC_ERROR
        /\ (dochandle.doc = TREE /\ dochandle'.last.op = "release") =>
              dochandle'.doc = NULL /\ dochandle'.last.value = "released"
        /\ (dochandle.doc = TREE /\ dochandle'.last.op = "read") =>
              dochandle'.doc = TREE /\ dochandle'.last.value = TREE

C13_CtorOwnership ==
    /\ ~(xslt.pimpl.ss_ # NULL /\ (xslt.doc = TREE \/ xslt.atExit = TREE))
    /\ xslt.freed <= 1
    /\ xslt.pc = "built" =>
          xslt.pimpl.ss_ = SS /\ xslt.atExit = NULL /\ xslt.freed = 0
    /\ (xslt.pc = "thrown" /\ xslt.exc.type = "xml::exception" /\ xslt.atExit # "none") =>
          xslt.pimpl.ss_ = NULL /\ xslt.atExit = TREE /\ xslt.freed = 1
    /\ (xslt.pc = "thrown" /\ xslt.exc.type = DOC_ERROR) =>
          xslt.pimpl.ss_ = NULL /\ xslt.atExit = NULL /\ xslt.freed = 0
    /\ xslt.pc = "destroyed" => xslt.freed = 1

C14_AsAlone ==
    \A i \in Parses :
        LET q == two.parse[i]
        IN  /\ q.pc = "parsing" => q.impl = Alone(q.log)
            /\ q.pc = "returned" =>
                  q.impl = TwoSettle(q.ctor, q.kind, Alone(q.log), q.out)

C14_OtherUntouched ==
    \A i \in Parses :
        Len(two'.parse[i].log) = Len(two.parse[i].log) + 1 =>
            two'.parse[Other(i)].impl = two.parse[Other(i)].impl

C14_Independent == []C14_AsAlone /\ [][C14_OtherUntouched]_vars

\* both constructions are inside their parse call, the first has had two
\* callbacks and an error, the second a warning
C14_Witness ==
    /\ two.parse["p1"].pc = "parsing" /\ two.parse["p2"].pc = "parsing"
    /\ Len(two.parse["p1"].log) = 2 /\ Len(two.parse["p2"].log) = 1
    /\ ~two.parse["p1"].impl.okay_ /\ ~two.parse["p1"].impl.warnings_
    /\ two.parse["p2"].impl.okay_ /\ two.parse["p2"].impl.warnings_

(***************************************************************************)
(* C20: printf2string, for every formatted message over a bounded          *)
(* alphabet: when the formatted length is zero or negative the output      *)
(* string is left as the caller passed it; otherwise the output is the     *)
(* formatted text truncated to at most BufSize - 1 characters, with        *)
(* exactly one trailing newline removed if the truncated text ends in a    *)
(* newline, and nothing else removed.                                      *)
(***************************************************************************)
\* the output the sentence describes
C20_Described(s, f) ==
    IF vsnprintf_ret(f) <= 0
    THEN s
    ELSE LET t == SubSeq(f.text, 1, Min(Len(f.text), BufSize - 1))
         IN  IF t[Len(t)] = NL THEN SubSeq(t, 1, Len(t) - 1) ELSE t

C20_Formatted ==
    fmt.done =>
        /\ ~fmt.out.threw
        /\ fmt.out.s = C20_Described(fmt.s, fmt.f)

(***************************************************************************)
(* C22: in printf2string, whenever vsnprintf reports a positive length,    *)
(* the index size - 1 of the trailing-newline test lies inside the         *)
(* buffer: the measured length of the buffer contents is at least 1 and    *)
(* at most BufSize - 1, also for a message whose first formatted           *)
(* character is NUL.                                                       *)
(***************************************************************************)
C22_ProbeInsideBuffer ==
    (fmt.done /\ vsnprintf_ret(fmt.f) > 0) =>
        /\ strlen(fmt.f) >= 1
        /\ strlen(fmt.f) <= BufSize - 1

(***************************************************************************)
(* C21: XSLT apply is all-or-nothing.  When the transformation returned a  *)
(* result tree but error_cb was called during that apply, the tree is      *)
(* freed and apply reports failure: the bool overloads return false and    *)
(* leave the caller's result document as it was, the reference overloads   *)
(* throw xml::exception.  The error flag is cleared at the start of every  *)
(* apply, so an apply succeeds exactly when the library returned a tree    *)
(* and no error_cb was called during that apply, whatever earlier applies  *)
(* did.                                                                    *)
(***************************************************************************)
\* the apply returned from apply_stylesheet (no exception left error_cb)
C21_Returned == xslt.apply.pc = "done" /\ xslt.apply.ctxt = "freed"

C21_Outcome ==
    /\ xslt.apply.pc = "applying" =>
          (xslt.pimpl.errors_occured_ <=> xslt.apply.cbs > 0)
    /\ C21_Returned =>
          /\ xslt.apply.returned \in {"true", "ref"} <=>
                (xslt.apply.libresult # NULL /\ xslt.apply.cbs = 0)
          /\ (xslt.apply.libresult # NULL /\ xslt.apply.cbs > 0) =>
                /\ xslt.apply.result_freed = 1
                /\ xslt.apply.overload = "bool" => xslt.apply.returned = "false"
                /\ xslt.apply.overload = "ref" =>
                      /\ xslt.apply.returned = "threw"
                      /\ xslt.apply.exc = "xml::exception"
          /\ xslt.apply.returned \in {"true", "ref"} => xslt.apply.result_freed = 0

\* an apply that fails leaves the caller's result document and the
\* stylesheet's own document as they were
C21_FailureStep ==
    (xslt.apply.pc = "applying" /\ xslt'.apply.pc = "done"
        /\ xslt'.apply.returned \in {"false", "threw"}) =>
        /\ xslt'.apply.caller_result = xslt.apply.caller_result
        /\ xslt'.pimpl.doc_ = xslt.pimpl.doc_

C21_AllOrNothing == []C21_Outcome /\ [][C21_FailureStep]_vars

\* the second apply: a tree came back, error_cb was called, the bool
\* overload returned false and the caller still holds the first result
C21_Witness ==
    /\ xslt.apply.n = 2 /\ C21_Returned
    /\ xslt.apply.overload = "bool"
    /\ xslt.apply.libresult = RESULT /\ xslt.apply.cbs > 0
    /\ xslt.apply.returned = "false"
    /\ xslt.apply.caller_result = RESULT

(***************************************************************************)
(* C23: after an apply that reports failure, by returning false or by      *)
(* throwing, get_error_message() is non-empty, whatever applies and        *)
(* error_cb calls came before; and the stored error text only grows: each  *)
(* error_cb call appends a newline followed by its message, and nothing    *)
(* is cleared or shortened.                                                *)
(***************************************************************************)
\* the last error_cb call was made, and nothing ended the program
C23_Called == xslt.apply.total > 0

C23_ErrorTextGrows ==
    /\ (xslt.apply.pc = "done" /\ xslt.apply.returned \in {"false", "threw"}) =>
          stylesheet_get_error_message # << >>
    /\ C23_Called =>
          stylesheet_get_error_message =
              xslt.apply.before \o << NL >> \o C20_Described(<< >>, xslt.apply.last_f)

====
